---- MODULE Spec2Model ----
EXTENDS Integers, Sequences, FiniteSets, TLC

(***************************************************************************)
(* Model of src/preprocessing1.py, class BiblicalTextPreprocessor.         *)
(*                                                                         *)
(* A text is a sequence of one-character strings, so that the regular      *)
(* expressions of the source are modelled by what they do to characters.   *)
(* A Python dict is an insertion-ordered sequence of <<key, value>> pairs  *)
(* with distinct keys.  An exception that leaves a method is recorded in   *)
(* the variable err.                                                       *)
(***************************************************************************)

VARIABLES
    pc,            \* position of the running method
    err,           \* "none", or the name of the exception that propagated
    text,          \* cleaners: the input text
    out1,          \* cleaners: result of the first application
    out2,          \* cleaners: result of the second application
    content,       \* plain-text scripture parser: the file content
    pos,           \* plain-text scripture parser: where finditer resumes
    matches,       \* plain-text scripture parser: the matches met so far
    bible_data,    \* scripture parsers: the corpus under construction
    bibles,        \* alignment: dict translation -> corpus (input)
    commentaries,  \* alignment: dict source -> list of records (input)
    all_refs,      \* alignment: the list all_refs
    df,            \* alignment: the table, [rows, cols]
    src_idx,       \* alignment: index of the next commentary source, 0
                   \* before the commentary loop is entered
    commentary_map, \* alignment: commentary_map of the last source handled
    doc,           \* markup and JSON parsers: the parsed file content
    entries        \* commentary parsers: the list of records returned

cleanVars == <<text, out1, out2>>
txtVars == <<content, pos, matches, bible_data>>
alignVars == <<bibles, commentaries, all_refs, df, src_idx, commentary_map>>
parseVars == <<doc, entries>>
vars == <<pc, err, cleanVars, txtVars, alignVars, parseVars>>

\* ------------------------------------------------------------------------
\* Bounds of the model
\* ------------------------------------------------------------------------
MaxTextLen == 5
MaxPieces == 3
MaxVerses == 3
MaxTranslations == 2
MaxSources == 2
MaxEntries == 2
MaxElems == 2

\* ------------------------------------------------------------------------
\* Characters
\* ------------------------------------------------------------------------
WhitespaceChars == {" ", "\n"}
Digits == <<"0", "1", "2", "3", "4", "5", "6", "7", "8", "9">>
DigitChars == {Digits[i] : i \in 1..10}
BookPrefixChars == {"1", "2", "3"}
LowerLetters ==
    <<"a", "b", "c", "d", "e", "f", "g", "h", "i", "j", "k", "l", "m",
      "n", "o", "p", "q", "r", "s", "t", "u", "v", "w", "x", "y", "z">>
UpperLetters ==
    <<"A", "B", "C", "D", "E", "F", "G", "H", "I", "J", "K", "L", "M",
      "N", "O", "P", "Q", "R", "S", "T", "U", "V", "W", "X", "Y", "Z">>
AlphaChars == {LowerLetters[i] : i \in 1..26} \cup {UpperLetters[i] : i \in 1..26}
WordChars == AlphaChars \cup DigitChars \cup {"_"}
FootnoteMarkers == {"*", "#"}
PunctChars == {",", ".", ";", ":", "?", "!"}
VerseSeparators == {":", "."}

\* A value that may be None: <<>> is None, <<v>> is the value v.
None == <<>>
Some(v) == <<v>>
Val(x) == x[1]

\* First index j >= i with t[j] outside S (Len(t)+1 when there is none):
\* the end of the greedy run matched by a pattern such as \s+ or \d+.
RunEnd(t, i, S) ==
    CHOOSE j \in i..(Len(t) + 1) :
        /\ \A k \in i..(j - 1) : t[k] \in S
        /\ (j = Len(t) + 1 \/ t[j] \notin S)

Slice(t, i, j) == [k \in 1..(j - i + 1) |-> t[i + k - 1]]

\* unicodedata.normalize('NFKC', text): every character of the modelled
\* alphabet is ASCII, and NFKC maps an ASCII character to itself.
NFKCChar(c) == c
NFKC(t) == [i \in 1..Len(t) |-> NFKCChar(t[i])]

\* re.sub(r'\s+', ' ', text)
RECURSIVE SubWhitespaceFrom(_, _)
SubWhitespaceFrom(t, i) ==
    IF i > Len(t) THEN <<>>
    ELSE IF t[i] \in WhitespaceChars
         THEN <<" ">> \o SubWhitespaceFrom(t, RunEnd(t, i, WhitespaceChars))
         ELSE <<t[i]>> \o SubWhitespaceFrom(t, i + 1)
SubWhitespace(t) == SubWhitespaceFrom(t, 1)

\* re.sub of the two quote classes: curly quotes become straight ones.
\* The modelled alphabet holds straight quotes only, which both map to
\* themselves.
SubQuotes(t) == [i \in 1..Len(t) |-> t[i]]

\* re.sub(r'†|‡|\*|\#|¶', '', text)
SubFootnotes(t) == SelectSeq(t, LAMBDA c : c \notin FootnoteMarkers)

\* re.sub(r'\[.*?\]', '', text): leftmost match, lazy body, '.' does not
\* match a newline.
FirstClose(t, i) ==
    IF \E j \in (i + 1)..Len(t) : t[j] = "]"
    THEN CHOOSE j \in (i + 1)..Len(t) :
             t[j] = "]" /\ \A k \in (i + 1)..(j - 1) : t[k] # "]"
    ELSE 0
RECURSIVE SubBracketsFrom(_, _)
SubBracketsFrom(t, i) ==
    IF i > Len(t) THEN <<>>
    ELSE IF /\ t[i] = "["
            /\ FirstClose(t, i) # 0
            /\ \A k \in (i + 1)..(FirstClose(t, i) - 1) : t[k] # "\n"
         THEN SubBracketsFrom(t, FirstClose(t, i) + 1)
         ELSE <<t[i]>> \o SubBracketsFrom(t, i + 1)
SubBrackets(t) == SubBracketsFrom(t, 1)

\* str.strip()
Strip(t) ==
    IF \A k \in 1..Len(t) : t[k] \in WhitespaceChars THEN <<>>
    ELSE LET first == CHOOSE i \in 1..Len(t) :
                 t[i] \notin WhitespaceChars
                 /\ \A k \in 1..(i - 1) : t[k] \in WhitespaceChars
             last == CHOOSE j \in 1..Len(t) :
                 t[j] \notin WhitespaceChars
                 /\ \A k \in (j + 1)..Len(t) : t[k] \in WhitespaceChars
         IN Slice(t, first, last)

\* The cleanup patterns, applied in list order, then strip.
normalize_text(t) ==
    Strip(SubBrackets(SubFootnotes(SubQuotes(SubWhitespace(NFKC(t))))))

\* re.sub(r'(\d+)[:\.](\d+)', r'[\1:\2] ', text)
RECURSIVE SubVerseFrom(_, _)
SubVerseFrom(t, i) ==
    IF i > Len(t) THEN <<>>
    ELSE LET e1 == RunEnd(t, i, DigitChars)
         IN IF /\ t[i] \in DigitChars
               /\ e1 + 1 <= Len(t)
               /\ t[e1] \in VerseSeparators
               /\ t[e1 + 1] \in DigitChars
            THEN LET e2 == RunEnd(t, e1 + 1, DigitChars)
                 IN <<"[">> \o Slice(t, i, e1 - 1) \o <<":">>
                      \o Slice(t, e1 + 1, e2 - 1) \o <<"]", " ">>
                      \o SubVerseFrom(t, e2)
            ELSE <<t[i]>> \o SubVerseFrom(t, i + 1)
SubVerse(t) == SubVerseFrom(t, 1)

\* re.sub(r'\s+([,.;:?!])', r'\1', text)
RECURSIVE SubPunctFrom(_, _)
SubPunctFrom(t, i) ==
    IF i > Len(t) THEN <<>>
    ELSE IF t[i] \in WhitespaceChars
         THEN LET e == RunEnd(t, i, WhitespaceChars)
              IN IF e <= Len(t) /\ t[e] \in PunctChars
                 THEN SubPunctFrom(t, e)
                 ELSE Slice(t, i, e - 1) \o SubPunctFrom(t, e)
         ELSE <<t[i]>> \o SubPunctFrom(t, i + 1)
SubPunct(t) == SubPunctFrom(t, 1)

clean_bible_text(t) == SubPunct(SubVerse(normalize_text(t)))

\* re.IGNORECASE on the letters of the alphabet
ToLower(c) ==
    IF \E i \in 1..26 : UpperLetters[i] = c
    THEN LowerLetters[CHOOSE i \in 1..26 : UpperLetters[i] = c]
    ELSE c

\* \b at the gap before index p: exactly one side is a word character
IsWordAt(t, q) == q >= 1 /\ q <= Len(t) /\ t[q] \in WordChars
WordBoundary(t, p) == IsWordAt(t, p - 1) # IsWordAt(t, p)

\* fr'\b{term}\b' with re.IGNORECASE matches at index i
TermAt(t, i, term) ==
    /\ i + Len(term) - 1 <= Len(t)
    /\ \A k \in 1..Len(term) : ToLower(t[i + k - 1]) = ToLower(term[k])
    /\ WordBoundary(t, i)
    /\ WordBoundary(t, i + Len(term))

\* re.sub(fr'\b{term}\b', replacement, text, flags=re.IGNORECASE), where
\* the replacement is the term itself
RECURSIVE SubTermFrom(_, _, _)
SubTermFrom(t, i, term) ==
    IF i > Len(t) THEN <<>>
    ELSE IF TermAt(t, i, term)
         THEN term \o SubTermFrom(t, i + Len(term), term)
         ELSE <<t[i]>> \o SubTermFrom(t, i + 1, term)
\* Mutant of SubTerm: only the first occurrence is replaced (count=1).
RECURSIVE SubTermOnce(_, _, _)
SubTermOnce(t, i, term) ==
    IF i > Len(t) THEN <<>>
    ELSE IF TermAt(t, i, term)
         THEN term \o SubSeq(t, i + Len(term), Len(t))
         ELSE <<t[i]>> \o SubTermOnce(t, i + 1, term)
SubTerm_FirstOnly(t, term) == SubTermOnce(t, 1, term)
SubTerm(t, term) == SubTermFrom(t, 1, term)

\* theological_terms, in the order of the dict
TermYHWH == <<"Y", "H", "W", "H">>
TermJHVH == <<"J", "H", "V", "H">>
TermLORD == <<"L", "O", "R", "D">>
TermSonOfMan == <<"S", "o", "n", " ", "o", "f", " ", "M", "a", "n">>

clean_commentary_text(t) ==
    SubTerm(SubTerm(SubTerm(SubTerm(normalize_text(t), TermYHWH), TermJHVH),
                    TermLORD), TermSonOfMan)

\* ------------------------------------------------------------------------
\* Specification of the cleaners: a text is cleaned, and cleaned again.
\* ------------------------------------------------------------------------
CleanAlphabet == {"a", " ", "3", ":", "[", "]", "*"}

RECURSIVE TextsUpTo(_, _)
TextsUpTo(A, n) ==
    IF n = 0 THEN {<<>>}
    ELSE LET shorter == TextsUpTo(A, n - 1)
         IN shorter \cup {Append(t, c) : t \in shorter, c \in A}

\* Values of the variables a specification does not use
IdleClean == text = <<>> /\ out1 = <<>> /\ out2 = <<>>
IdleTxt == content = <<>> /\ pos = 0 /\ matches = <<>> /\ bible_data = <<>>
IdleAlign ==
    /\ bibles = <<>>
    /\ commentaries = <<>>
    /\ all_refs = <<>>
    /\ df = [rows |-> <<>>, cols |-> <<>>]
    /\ src_idx = 0
    /\ commentary_map = <<>>
IdleParse == doc = <<>> /\ entries = <<>>

InitClean ==
    /\ pc = "clean_input"
    /\ err = "none"
    /\ text \in TextsUpTo(CleanAlphabet, MaxTextLen)
    /\ out1 = <<>>
    /\ out2 = <<>>
    /\ IdleTxt
    /\ IdleAlign
    /\ IdleParse

CleanFirst ==
    /\ pc = "clean_input"
    /\ out1' = clean_bible_text(text)
    /\ pc' = "clean_once"
    /\ UNCHANGED <<err, text, out2, txtVars, alignVars, parseVars>>

CleanSecond ==
    /\ pc = "clean_once"
    /\ out2' = clean_bible_text(out1)
    /\ pc' = "clean_twice"
    /\ UNCHANGED <<err, text, out1, txtVars, alignVars, parseVars>>

NextClean == CleanFirst \/ CleanSecond

SpecClean == InitClean /\ [][NextClean]_vars

\* C5: clean_bible_text is idempotent: cleaning a cleaned text returns it
\* unchanged.
C5_Idempotent == pc = "clean_twice" => out2 = out1

\* ------------------------------------------------------------------------
\* Python dicts: insertion-ordered sequences of <<key, value>> pairs
\* ------------------------------------------------------------------------
DictHas(d, k) == \E i \in 1..Len(d) : d[i][1] = k
DictGet(d, k) == d[CHOOSE i \in 1..Len(d) : d[i][1] = k][2]
DictGetDefault(d, k, default) == IF DictHas(d, k) THEN DictGet(d, k) ELSE default
\* d[k] = v: an existing key keeps its place, a new key goes last
DictSet(d, k, v) ==
    IF DictHas(d, k)
    THEN [i \in 1..Len(d) |-> IF d[i][1] = k THEN <<k, v>> ELSE d[i]]
    ELSE Append(d, <<k, v>>)
DictKeys(d) == [i \in 1..Len(d) |-> d[i][1]]

\* int(s) for a string of decimal digits
DigitValue(c) == (CHOOSE i \in 1..10 : Digits[i] = c) - 1
RECURSIVE StrToInt(_)
StrToInt(s) ==
    IF Len(s) = 0 THEN 0
    ELSE 10 * StrToInt(SubSeq(s, 1, Len(s) - 1)) + DigitValue(s[Len(s)])

\* ------------------------------------------------------------------------
\* _process_txt_bible
\* ------------------------------------------------------------------------
\* The pattern [1-3]?\s*[A-Za-z]+\s+\d+:\d+ tried at index i.  Every
\* quantifier is greedy and is followed by a character outside its class,
\* so the only match takes the maximal runs: w, a, s, d and v are the ends
\* of the runs of \s*, [A-Za-z]+, \s+, \d+ and \d+.
NoMatch == [ok |-> FALSE]
RefVerse(t, a, s, d, v) ==
    IF v > d + 1
    THEN [ok |-> TRUE, bookEnd |-> a, chapStart |-> s, chapEnd |-> d,
          verseEnd |-> v]
    ELSE NoMatch
RefColon(t, a, s, d) ==
    IF d > s /\ d <= Len(t) /\ t[d] = ":"
    THEN RefVerse(t, a, s, d, RunEnd(t, d + 1, DigitChars))
    ELSE NoMatch
RefChapter(t, a, s) ==
    IF s > a THEN RefColon(t, a, s, RunEnd(t, s, DigitChars)) ELSE NoMatch
RefSpace(t, w, a) ==
    IF a > w THEN RefChapter(t, a, RunEnd(t, a, WhitespaceChars)) ELSE NoMatch
RefBook(t, w) == RefSpace(t, w, RunEnd(t, w, AlphaChars))
RefAt(t, i) ==
    IF i > Len(t) THEN NoMatch
    ELSE RefBook(t, RunEnd(t, IF t[i] \in BookPrefixChars THEN i + 1 ELSE i,
                           WhitespaceChars))

\* ([1-3]?\s*[A-Za-z]+)\s+(\d+):(\d+)\s+ tried at index i; bodyStart is
\* the index after the greedy \s+ that follows the verse number.
HeadBody(r, b) ==
    IF b > r.verseEnd
    THEN [ok |-> TRUE, bookEnd |-> r.bookEnd, chapStart |-> r.chapStart,
          chapEnd |-> r.chapEnd, verseEnd |-> r.verseEnd, bodyStart |-> b]
    ELSE NoMatch
HeadOf(t, r) ==
    IF r.ok THEN HeadBody(r, RunEnd(t, r.verseEnd, WhitespaceChars))
    ELSE NoMatch
HeadAt(t, i) == HeadOf(t, RefAt(t, i))

\* $ without re.MULTILINE: the end of the text, or just before a final
\* newline
AtEnd(t, p) == p = Len(t) + 1 \/ (p = Len(t) /\ t[p] = "\n")

\* (?=(?:[1-3]?\s*[A-Za-z]+\s+\d+:\d+)|$) tried at index p
Lookahead(t, p) == RefAt(t, p).ok \/ AtEnd(t, p)

\* (.*?) followed by the lookahead, with re.DOTALL: the lazy body stops at
\* the first index where the lookahead holds.
BodyEnd(t, b) ==
    CHOOSE p \in b..(Len(t) + 1) :
        Lookahead(t, p) /\ \A q \in b..(p - 1) : ~Lookahead(t, q)

HasMatchFrom(t, from) == \E i \in from..Len(t) : HeadAt(t, i).ok

\* The next match of finditer at or after index from (leftmost start).
MatchStart(t, from) ==
    CHOOSE k \in from..Len(t) :
        HeadAt(t, k).ok /\ \A q \in from..(k - 1) : ~HeadAt(t, q).ok
MatchGroups(t, i, h, e) ==
    [group1 |-> Slice(t, i, h.bookEnd - 1),
     group2 |-> Slice(t, h.chapStart, h.chapEnd - 1),
     group3 |-> Slice(t, h.chapEnd + 1, h.verseEnd - 1),
     group4 |-> Slice(t, h.bodyStart, e - 1),
     end |-> e]
MatchBody(t, i, h) == MatchGroups(t, i, h, BodyEnd(t, h.bodyStart))
MatchAt(t, i) == MatchBody(t, i, HeadAt(t, i))
NextMatch(t, from) == MatchAt(t, MatchStart(t, from))

\* Mutant of StoreVerse: an occurrence of a key already stored is dropped
\* (first write wins).
StoreVerse_FirstWins(bd, book, chapter, verse, txt) ==
    IF DictHas(DictGetDefault(DictGetDefault(bd, book, <<>>), chapter, <<>>), verse)
    THEN bd
    ELSE DictSet(bd, book,
             DictSet(DictGetDefault(bd, book, <<>>), chapter,
                 DictSet(DictGetDefault(DictGetDefault(bd, book, <<>>),
                                        chapter, <<>>),
                         verse, txt)))

\* if book not in bible_data: bible_data[book] = {}
\* if chapter not in bible_data[book]: bible_data[book][chapter] = {}
\* bible_data[book][chapter][verse] = text
StoreVerse(bd, book, chapter, verse, txt) ==
    DictSet(bd, book,
        DictSet(DictGetDefault(bd, book, <<>>), chapter,
            DictSet(DictGetDefault(DictGetDefault(bd, book, <<>>), chapter, <<>>),
                    verse, txt)))

\* Mutant of Lookup: a missing verse yields a not-a-number marker instead
\* of the empty string.
Lookup_NaN(bd, book, chapter, verse, default) ==
    DictGetDefault(DictGetDefault(DictGetDefault(bd, book, <<>>), chapter, <<>>),
                   verse, <<"N", "a", "N">>)

\* corpus.get(book, {}).get(chapter, {}).get(verse, default)
Lookup(bd, book, chapter, verse, default) ==
    DictGetDefault(DictGetDefault(DictGetDefault(bd, book, <<>>), chapter, <<>>),
                   verse, default)
HasVerse(bd, book, chapter, verse) ==
    /\ DictHas(bd, book)
    /\ DictHas(DictGet(bd, book), chapter)
    /\ DictHas(DictGet(DictGet(bd, book), chapter), verse)

\* File contents: up to MaxPieces pieces, one after the other.
TxtPieces ==
    { <<"J", " ", "1", ":", "1", " ", "a", "\n">>,
      <<"J", " ", "1", ":", "1", " ", "b", " ", "1", ".", "2", "\n">>,
      <<"J", " ", "1", ":", "2", " ", "a", "\n">>,
      <<"J", " ", "2", ":", "1", " ", "b", "\n">>,
      <<"M", " ", "1", ":", "1", " ", "a", " ", ",", "\n">>,
      <<"b", " ", "2", " ">>,
      <<"M", " ", "1", "6", ":", "3", " ", "b">> }

RECURSIVE Concats(_, _)
Concats(P, n) ==
    IF n = 0 THEN {<<>>}
    ELSE LET shorter == Concats(P, n - 1)
         IN shorter \cup {t \o p : t \in shorter, p \in P}

InitTxt ==
    /\ pc = "txt_scan"
    /\ err = "none"
    /\ IdleClean
    /\ IdleAlign
    /\ IdleParse
    /\ content \in Concats(TxtPieces, MaxPieces)
    /\ pos = 1
    /\ matches = <<>>
    /\ bible_data = <<>>

\* The body of the loop for one match m
TxtBibleStore(m) ==
    /\ bible_data' = StoreVerse(bible_data, Strip(m.group1), StrToInt(m.group2),
                                StrToInt(m.group3), clean_bible_text(m.group4))
    /\ matches' = Append(matches, [book |-> Strip(m.group1),
                                   chapter |-> StrToInt(m.group2),
                                   verse |-> StrToInt(m.group3),
                                   body |-> m.group4])
    /\ pos' = m.end

\* One iteration of the loop over finditer
TxtBibleMatch ==
    /\ pc = "txt_scan"
    /\ HasMatchFrom(content, pos)
    /\ TxtBibleStore(NextMatch(content, pos))
    /\ UNCHANGED <<pc, err, cleanVars, content, alignVars, parseVars>>

\* finditer is exhausted: return bible_data
TxtBibleReturn ==
    /\ pc = "txt_scan"
    /\ ~HasMatchFrom(content, pos)
    /\ pc' = "txt_done"
    /\ UNCHANGED <<err, cleanVars, txtVars, alignVars, parseVars>>

NextTxt == TxtBibleMatch \/ TxtBibleReturn

SpecTxt == InitTxt /\ [][NextTxt]_vars

\* The last match of the file with the key of match i
IsLastOfKey(i) ==
    \A j \in (i + 1)..Len(matches) :
        ~(/\ matches[j].book = matches[i].book
          /\ matches[j].chapter = matches[i].chapter
          /\ matches[j].verse = matches[i].verse)

\* C6: when the scan is over, every matched key holds the cleaned body of
\* its last occurrence in the file, whatever the other matches were.
C6_LastWriteWins ==
    pc = "txt_done" =>
        \A i \in 1..Len(matches) :
            IsLastOfKey(i) =>
                /\ HasVerse(bible_data, matches[i].book, matches[i].chapter,
                            matches[i].verse)
                /\ Lookup(bible_data, matches[i].book, matches[i].chapter,
                          matches[i].verse, <<"?">>)
                       = clean_bible_text(matches[i].body)

\* C6 witness: a file in which a key occurs twice with different cleaned
\* bodies, next to another key, has been parsed.
C6_Witness ==
    /\ pc = "txt_done"
    /\ \E i, j, k \in 1..Len(matches) :
          /\ i < j
          /\ matches[i].book = matches[j].book
          /\ matches[i].chapter = matches[j].chapter
          /\ matches[i].verse = matches[j].verse
          /\ clean_bible_text(matches[i].body) # clean_bible_text(matches[j].body)
          /\ matches[k].book # matches[i].book

\* ------------------------------------------------------------------------
\* create_verse_aligned_dataset
\* ------------------------------------------------------------------------
\* str(n) for n >= 0
RECURSIVE IntToStr(_)
IntToStr(n) ==
    IF n < 10 THEN <<Digits[n + 1]>>
    ELSE IntToStr(n \div 10) \o <<Digits[(n % 10) + 1]>>

\* The dict ref of one verse; reference is f"{book} {chapter}:{verse}"
MakeRef(book, chapter, verse) ==
    [book |-> book, chapter |-> chapter, verse |-> verse,
     reference |-> book \o <<" ">> \o IntToStr(chapter) \o <<":">> \o IntToStr(verse)]

InSeq(x, seq) == \E i \in 1..Len(seq) : seq[i] = x

\* Mutant of AppendIfNew: the membership test is dropped.
AppendIfNew_Always(refs, ref) == Append(refs, ref)

\* if ref not in all_refs: all_refs.append(ref)
AppendIfNew(refs, ref) == IF InSeq(ref, refs) THEN refs ELSE Append(refs, ref)

\* for verse, text in verses.items()
RECURSIVE CollectVerses(_, _, _, _, _)
CollectVerses(refs, book, chapter, verses, i) ==
    IF i > Len(verses) THEN refs
    ELSE CollectVerses(AppendIfNew(refs, MakeRef(book, chapter, verses[i][1])),
                       book, chapter, verses, i + 1)

\* for chapter, verses in chapters.items()
RECURSIVE CollectChapters(_, _, _, _)
CollectChapters(refs, book, chapters, i) ==
    IF i > Len(chapters) THEN refs
    ELSE CollectChapters(
             CollectVerses(refs, book, chapters[i][1], chapters[i][2], 1),
             book, chapters, i + 1)

\* for book, chapters in bible_data.items()
RECURSIVE CollectBooks(_, _, _)
CollectBooks(refs, bd, i) ==
    IF i > Len(bd) THEN refs
    ELSE CollectBooks(CollectChapters(refs, bd[i][1], bd[i][2], 1), bd, i + 1)

\* Mutant of CollectBibles: the translations are visited last to first.
RECURSIVE CollectBibles_Reversed(_, _, _)
CollectBibles_Reversed(refs, bs, i) ==
    IF i > Len(bs) THEN refs
    ELSE CollectBibles_Reversed(CollectBooks(refs, bs[Len(bs) + 1 - i][2], 1), bs, i + 1)

\* for translation, bible_data in bibles.items()
RECURSIVE CollectBibles(_, _, _)
CollectBibles(refs, bs, i) ==
    IF i > Len(bs) THEN refs
    ELSE CollectBibles(CollectBooks(refs, bs[i][2], 1), bs, i + 1)

\* df.apply(lambda row: bible_data.get(...).get(...).get(row['verse'], ""),
\*          axis=1)
TextColumn(bd, rows) ==
    [r \in 1..Len(rows) |->
        Lookup(bd, rows[r].book, rows[r].chapter, rows[r].verse, <<>>)]

\* for translation, bible_data in bibles.items(): df[f"text_{translation}"] = ...
RECURSIVE AddTextColumns(_, _, _, _)
AddTextColumns(cols, bs, rows, i) ==
    IF i > Len(bs) THEN cols
    ELSE AddTextColumns(DictSet(cols, <<"text", bs[i][1]>>, TextColumn(bs[i][2], rows)),
                        bs, rows, i + 1)

\* Mutant of MapAppend: the content is put before the contents already there.
MapAppend_Prepend(map, key, c) ==
    DictSet(map, key, <<c>> \o DictGetDefault(map, key, <<>>))

\* commentary_map[key].append(content), creating the list when missing
MapAppend(map, key, c) ==
    DictSet(map, key, Append(DictGetDefault(map, key, <<>>), c))

\* Mutant of AddRange: the range stops before verse_end.
RECURSIVE AddRange_Exclusive(_, _, _, _, _, _)
AddRange_Exclusive(map, book, chapter, v, last, c) ==
    IF v >= last THEN map
    ELSE AddRange_Exclusive(MapAppend(map, <<book, chapter, v>>, c),
                            book, chapter, v + 1, last, c)

\* for verse in range(verse_start, verse_end + 1)
RECURSIVE AddRange(_, _, _, _, _, _)
AddRange(map, book, chapter, v, last, c) ==
    IF v > last THEN map
    ELSE AddRange(MapAppend(map, <<book, chapter, v>>, c),
                  book, chapter, v + 1, last, c)

\* if 'book' in entry and 'chapter' in entry and 'verse_start' in entry
HasReferenceKeys(entry) ==
    {"book", "chapter", "verse_start"} \subseteq DOMAIN entry

\* entry.get('verse_end', verse_start)
VerseEnd(entry) ==
    IF "verse_end" \in DOMAIN entry THEN entry.verse_end ELSE entry.verse_start

\* The exception the loop body raises for entry, "none" when it raises
\* none: range() of None and None + 1 are TypeErrors, entry['content'] of a
\* record without content is a KeyError.
EntryError(entry) ==
    IF ~HasReferenceKeys(entry) THEN "none"
    ELSE IF entry.verse_start = None \/ VerseEnd(entry) = None THEN "TypeError"
    ELSE IF /\ Val(entry.verse_start) <= Val(VerseEnd(entry))
            /\ "content" \notin DOMAIN entry
         THEN "KeyError"
    ELSE "none"

\* The loop body for an entry that raises nothing
EntryAdd(map, entry) ==
    IF HasReferenceKeys(entry)
    THEN AddRange(map, entry.book, entry.chapter, Val(entry.verse_start),
                  Val(VerseEnd(entry)), entry.content)
    ELSE map

\* for entry in entries: ...
RECURSIVE BuildMap(_, _, _)
BuildMap(recs, i, map) ==
    IF i > Len(recs) THEN [err |-> "none", map |-> map]
    ELSE IF EntryError(recs[i]) # "none"
         THEN [err |-> EntryError(recs[i]), map |-> map]
         ELSE BuildMap(recs, i + 1, EntryAdd(map, recs[i]))

\* "; ".join(parts)
RECURSIVE Join(_, _)
Join(parts, i) ==
    IF i > Len(parts) THEN <<>>
    ELSE IF i = Len(parts) THEN parts[i]
    ELSE parts[i] \o <<";", " ">> \o Join(parts, i + 1)

\* The key the lambda looks up for a row
RowKey(row) == <<Some(row.book), Some(row.chapter), row.verse>>

\* df.apply(lambda row: "; ".join(commentary_map.get((book, chapter, verse), [])),
\*          axis=1)
CommentaryColumn(map, rows) ==
    [r \in 1..Len(rows) |-> Join(DictGetDefault(map, RowKey(rows[r]), <<>>), 1)]

\* Lines 397-415: collect the references and create the table
AlignCollect ==
    /\ pc = "align_collect"
    /\ all_refs' = CollectBibles(<<>>, bibles, 1)
    /\ df' = [rows |-> all_refs', cols |-> <<>>]
    /\ pc' = "align_text"
    /\ UNCHANGED <<err, cleanVars, txtVars, parseVars, bibles, commentaries,
                   src_idx, commentary_map>>

\* Lines 417-422: one text column per translation.  For a table without
\* rows, apply returns an empty table, and assigning it to a column is
\* accepted by some versions of the table library and a ValueError in
\* others.
AlignTranslations ==
    /\ pc = "align_text"
    /\ \/ /\ df' = [df EXCEPT !.cols = AddTextColumns(df.cols, bibles, df.rows, 1)]
          /\ pc' = "align_comm"
          /\ src_idx' = 1
          /\ err' = err
       \/ /\ Len(df.rows) = 0 /\ Len(bibles) > 0
          /\ pc' = "align_raised"
          /\ err' = "ValueError"
          /\ UNCHANGED <<df, src_idx>>
    /\ UNCHANGED <<cleanVars, txtVars, parseVars, bibles, commentaries, all_refs,
                   commentary_map>>

\* The outcome of one iteration of the loop of lines 425-446, given the
\* result b of the loop over the entries of the source
CommentaryOutcome(b) ==
    IF b.err # "none"
    THEN /\ pc' = "align_raised"
         /\ err' = b.err
         /\ UNCHANGED <<df, src_idx>>
    ELSE /\ df' = [df EXCEPT !.cols =
                     DictSet(df.cols, <<"commentary", commentaries[src_idx][1]>>,
                             CommentaryColumn(b.map, df.rows))]
         /\ src_idx' = src_idx + 1
         /\ UNCHANGED <<pc, err>>

\* Mutant of AlignCommentary: the default of verse_end is written back
\* into the record (setdefault instead of get).
AlignCommentary_SetDefault ==
    /\ pc = "align_comm"
    /\ src_idx <= Len(commentaries)
    /\ commentary_map' = BuildMap(commentaries[src_idx][2], 1, <<>>).map
    /\ CommentaryOutcome(BuildMap(commentaries[src_idx][2], 1, <<>>))
    /\ commentaries' = [commentaries EXCEPT ![src_idx][2] =
            [i \in 1..Len(@) |->
                IF HasReferenceKeys(@[i]) /\ "verse_end" \notin DOMAIN @[i]
                THEN [f \in DOMAIN @[i] \cup {"verse_end"} |->
                         IF f = "verse_end" THEN @[i].verse_start ELSE @[i][f]]
                ELSE @[i]]]
    /\ UNCHANGED <<cleanVars, txtVars, parseVars, bibles, all_refs>>

\* Lines 425-446: the commentary column of the next source.  The empty
\* table is as in AlignTranslations.
AlignCommentary ==
    /\ pc = "align_comm"
    /\ src_idx <= Len(commentaries)
    /\ commentary_map' = BuildMap(commentaries[src_idx][2], 1, <<>>).map
    /\ \/ CommentaryOutcome(BuildMap(commentaries[src_idx][2], 1, <<>>))
       \/ /\ Len(df.rows) = 0
          /\ BuildMap(commentaries[src_idx][2], 1, <<>>).err = "none"
          /\ pc' = "align_raised"
          /\ err' = "ValueError"
          /\ UNCHANGED <<df, src_idx>>
    /\ UNCHANGED <<cleanVars, txtVars, parseVars, bibles, commentaries, all_refs>>

\* Lines 448-453: the table is saved and returned
AlignReturn ==
    /\ pc = "align_comm"
    /\ src_idx > Len(commentaries)
    /\ pc' = "align_done"
    /\ UNCHANGED <<err, cleanVars, txtVars, alignVars, parseVars>>

NextAlign == AlignCollect \/ AlignTranslations \/ AlignCommentary \/ AlignReturn

\* ------------------------------------------------------------------------
\* Inputs of the alignment
\* ------------------------------------------------------------------------
J == <<"J">>
M == <<"M">>
AlignKeys == {<<J, 1, 1>>, <<J, 1, 2>>, <<J, 2, 1>>, <<M, 1, 1>>}
TranslationNames == <<"KJV", "NIV", "ESV">>
TranslationLetters == <<"k", "n", "e">>

\* The sequences of at most n distinct keys
RECURSIVE KeySeqs(_)
KeySeqs(n) ==
    IF n = 0 THEN {<<>>}
    ELSE KeySeqs(n - 1) \cup
         {Append(ks, k) : ks \in {q \in KeySeqs(n - 1) : Len(q) = n - 1},
                          k \in AlignKeys}

DistinctKeySeqs(n) ==
    {ks \in KeySeqs(n) : \A i, j \in 1..Len(ks) : i # j => ks[i] # ks[j]}

\* The text of key k in translation number t
VerseText(t, k) ==
    <<TranslationLetters[t]>> \o k[1] \o IntToStr(k[2]) \o IntToStr(k[3])

\* The corpus a parser builds for translation number t from verses met in
\* the order ks
RECURSIVE CorpusOf(_, _, _, _)
CorpusOf(bd, t, ks, i) ==
    IF i > Len(ks) THEN bd
    ELSE CorpusOf(StoreVerse(bd, ks[i][1], ks[i][2], ks[i][3], VerseText(t, ks[i])),
                  t, ks, i + 1)

\* A corpus is given by the order of its verses; the markup and JSON
\* parsers also return a book without chapters and a chapter without
\* verses.
CorpusShapes(n) ==
    {[keys |-> ks, hollow |-> "no"] : ks \in DistinctKeySeqs(n)}
    \cup {[keys |-> <<>>, hollow |-> h] : h \in {"book", "chapter"}}

BuildCorpus(t, shape) ==
    IF shape.hollow = "book" THEN <<<<J, <<>>>>>>
    ELSE IF shape.hollow = "chapter" THEN <<<<J, <<<<1, <<>>>>>>>>>>
    ELSE CorpusOf(<<>>, t, shape.keys, 1)

\* The sequences of at most n corpus shapes with at most v verses in all
RECURSIVE ShapeSeqs(_, _)
ShapeSeqs(n, v) ==
    IF n = 0 THEN {<<>>}
    ELSE {<<>>} \cup
         UNION {{<<sh>> \o rest : rest \in ShapeSeqs(n - 1, v - Len(sh.keys))} :
                sh \in CorpusShapes(v)}

BiblesOf(shapes) ==
    [t \in 1..Len(shapes) |-> <<TranslationNames[t], BuildCorpus(t, shapes[t])>>]

\* The dicts of at most n translations with at most v verses in all
BiblesUpTo(n, v) == {BiblesOf(f) : f \in ShapeSeqs(n, v)}

\* Commentary records
RecRange ==
    [source |-> "S", content |-> <<"x">>, book |-> Some(J), chapter |-> Some(1),
     verse_start |-> Some(1), verse_end |-> Some(2)]
RecSingle ==
    [source |-> "S", content |-> <<"y">>, book |-> Some(J), chapter |-> Some(1),
     verse_start |-> Some(2), verse_end |-> Some(2)]
RecNoEnd ==
    [source |-> "S", content |-> <<"x">>, book |-> Some(M), chapter |-> Some(1),
     verse_start |-> Some(1)]
RecEmptyRange ==
    [source |-> "S", content |-> <<"y">>, book |-> Some(J), chapter |-> Some(2),
     verse_start |-> Some(2), verse_end |-> Some(1)]
RecNoReference == [source |-> "S", content |-> <<"z">>]
RecNoBook == [source |-> "S", content |-> <<"z">>, chapter |-> Some(1)]
RecNoVerse ==
    [source |-> "S", content |-> <<"z">>, book |-> Some(J), chapter |-> Some(1),
     verse_start |-> None, verse_end |-> None]

SourceNames == <<"S1", "S2", "S3">>

FewCommentaries ==
    { <<>>,
      <<<<"S1", <<RecRange>>>>>>,
      <<<<"S1", <<RecRange, RecNoReference>>>>, <<"S2", <<RecNoEnd, RecSingle>>>>>>,
      <<<<"S1", <<RecNoEnd>>>>, <<"S2", <<RecNoVerse>>>>>> }

InitAlign ==
    /\ pc = "align_collect"
    /\ err = "none"
    /\ IdleClean
    /\ IdleTxt
    /\ IdleParse
    /\ bibles \in BiblesUpTo(MaxTranslations, MaxVerses)
    /\ commentaries \in FewCommentaries
    /\ all_refs = <<>>
    /\ df = [rows |-> <<>>, cols |-> <<>>]
    /\ src_idx = 0
    /\ commentary_map = <<>>

SpecAlign == InitAlign /\ [][NextAlign]_vars

\* The keys of a corpus and of all corpora, read off the dicts
CorpusKeys(bd) ==
    UNION {UNION {{<<bd[b][1], bd[b][2][c][1], bd[b][2][c][2][v][1]>> :
                      v \in 1..Len(bd[b][2][c][2])} :
                  c \in 1..Len(bd[b][2])} :
           b \in 1..Len(bd)}
UnionKeys == UNION {CorpusKeys(bibles[t][2]) : t \in 1..Len(bibles)}
KeyOfRow(row) == <<row.book, row.chapter, row.verse>>
TableBuilt == pc \in {"align_text", "align_comm", "align_done"}

\* C1: the table has exactly one row per key of the union of the corpora:
\* every key of the union has a row, no key has two, no row has a key
\* outside the union, and so the row count is the size of the union.
C1_OneRowPerKey ==
    TableBuilt =>
        /\ \A k \in UnionKeys : \E r \in 1..Len(df.rows) : KeyOfRow(df.rows[r]) = k
        /\ \A r1, r2 \in 1..Len(df.rows) :
               KeyOfRow(df.rows[r1]) = KeyOfRow(df.rows[r2]) => r1 = r2
        /\ \A r \in 1..Len(df.rows) : KeyOfRow(df.rows[r]) \in UnionKeys
        /\ Len(df.rows) = Cardinality(UnionKeys)

\* C1 witness: the table is returned for two corpora that share a key,
\* one of them holding a key the other lacks.
C1_Witness ==
    /\ pc = "align_done"
    /\ Len(bibles) = 2
    /\ CorpusKeys(bibles[1][2]) \cap CorpusKeys(bibles[2][2]) # {}
    /\ CorpusKeys(bibles[2][2]) \ CorpusKeys(bibles[1][2]) # {}
    /\ Len(df.rows) = 2

TextColumnsAdded == pc \in {"align_comm", "align_done"}

\* C2: in every row and for every translation, the text column holds the
\* verse of the corpus when the corpus has the key, and the empty string
\* when it has not; with at least one row, adding the text columns raises
\* nothing.
C2_TextOrEmpty ==
    /\ TextColumnsAdded =>
          \A t \in 1..Len(bibles) : \A r \in 1..Len(df.rows) :
              /\ DictHas(df.cols, <<"text", bibles[t][1]>>)
              /\ DictGet(df.cols, <<"text", bibles[t][1]>>)[r] =
                    IF KeyOfRow(df.rows[r]) \in CorpusKeys(bibles[t][2])
                    THEN DictGet(DictGet(DictGet(bibles[t][2], df.rows[r].book),
                                         df.rows[r].chapter), df.rows[r].verse)
                    ELSE <<>>
    /\ (pc = "align_raised" /\ src_idx = 0) => Len(df.rows) = 0

\* C2 witness: a table with a row whose book is missing from one corpus
\* and a row whose chapter is missing from a corpus that has the book.
C2_Witness ==
    /\ pc = "align_done"
    /\ \E t \in 1..Len(bibles) : \E r \in 1..Len(df.rows) :
          ~DictHas(bibles[t][2], df.rows[r].book)
    /\ \E t \in 1..Len(bibles) : \E r \in 1..Len(df.rows) :
          /\ DictHas(bibles[t][2], df.rows[r].book)
          /\ ~DictHas(DictGet(bibles[t][2], df.rows[r].book), df.rows[r].chapter)

\* C7: no step of create_verse_aligned_dataset changes the corpora or the
\* commentary records it was given.
C7_InputsUnchanged ==
    [][bibles' = bibles /\ commentaries' = commentaries]_vars

\* C7 witness: the table is returned with text and commentary columns, for
\* records one of which leaves verse_end to its default.
C7_Witness ==
    /\ pc = "align_done"
    /\ Len(df.rows) > 0
    /\ Len(df.cols) >= 2
    /\ \E s \in 1..Len(commentaries) : \E i \in 1..Len(commentaries[s][2]) :
          /\ HasReferenceKeys(commentaries[s][2][i])
          /\ "verse_end" \notin DOMAIN commentaries[s][2][i]

\* ------------------------------------------------------------------------
\* The commentary join on many record lists
\* ------------------------------------------------------------------------
JoinRecords ==
    {RecRange, RecSingle, RecNoEnd, RecEmptyRange, RecNoReference, RecNoBook,
     RecNoVerse}

\* The lists of at most n records
RECURSIVE RecordLists(_)
RecordLists(n) ==
    IF n = 0 THEN {<<>>}
    ELSE RecordLists(n - 1) \cup
         {Append(l, r) : l \in {q \in RecordLists(n - 1) : Len(q) = n - 1},
                         r \in JoinRecords}

\* The sequences of at most s record lists with at most n records in all
RECURSIVE ListSeqs(_, _)
ListSeqs(s, n) ==
    IF s = 0 THEN {<<>>}
    ELSE {<<>>} \cup
         UNION {{<<l>> \o rest : rest \in ListSeqs(s - 1, n - Len(l))} :
                l \in RecordLists(n)}

CommentariesOf(lists) ==
    [i \in 1..Len(lists) |-> <<SourceNames[i], lists[i]>>]

JoinBibles ==
    { BiblesOf(<<[keys |-> <<<<J, 1, 1>>, <<M, 1, 1>>, <<J, 1, 2>>, <<J, 2, 1>>>>,
                  hollow |-> "no"]>>),
      BiblesOf(<<[keys |-> <<>>, hollow |-> "no"]>>) }

InitJoin ==
    /\ pc = "align_collect"
    /\ err = "none"
    /\ IdleClean
    /\ IdleTxt
    /\ IdleParse
    /\ bibles \in JoinBibles
    /\ commentaries \in {CommentariesOf(ls) : ls \in ListSeqs(MaxSources, MaxEntries)}
    /\ all_refs = <<>>
    /\ df = [rows |-> <<>>, cols |-> <<>>]
    /\ src_idx = 0
    /\ commentary_map = <<>>

SpecJoin == InitJoin /\ [][NextAlign]_vars

\* Record rec refers to the verse of row: same book, same chapter, and the
\* verse within [verse_start, verse_end]
Covers(rec, row) ==
    /\ HasReferenceKeys(rec)
    /\ rec.book = Some(row.book)
    /\ rec.chapter = Some(row.chapter)
    /\ rec.verse_start # None
    /\ VerseEnd(rec) # None
    /\ Val(rec.verse_start) <= row.verse
    /\ row.verse <= Val(VerseEnd(rec))

Occurrences(x, seq) == Cardinality({i \in 1..Len(seq) : seq[i] = x})

\* The source whose column was added last
ColumnJustAdded == pc \in {"align_comm", "align_done"} /\ src_idx > 1
LastEntries == commentaries[src_idx - 1][2]
LastColumn == DictGet(df.cols, <<"commentary", commentaries[src_idx - 1][1]>>)
JoinedContents(row) == DictGetDefault(commentary_map, RowKey(row), <<>>)

\* C3: when the column of a source is added, a row's cell is made of the
\* contents of the records of that source that cover the row, each as often
\* as records with that content cover it: a record's content is in the
\* cell of every row it covers, and in no other row and no other column on
\* its account.
C3_RangeJoin ==
    ColumnJustAdded =>
        \A r \in 1..Len(df.rows) :
            /\ LastColumn[r] = Join(JoinedContents(df.rows[r]), 1)
            /\ \A x \in {LastEntries[i].content : i \in 1..Len(LastEntries)}
                     \cup {JoinedContents(df.rows[r])[i] :
                              i \in 1..Len(JoinedContents(df.rows[r]))} :
                   Occurrences(x, JoinedContents(df.rows[r])) =
                       Cardinality({i \in 1..Len(LastEntries) :
                                       /\ LastEntries[i].content = x
                                       /\ Covers(LastEntries[i], df.rows[r])})

\* C3 witness: the table is returned with the column of a source holding a
\* record that spans two verses, which is in the cells of exactly these two
\* rows out of four.
C3_Witness ==
    /\ pc = "align_done"
    /\ Len(df.rows) = 4
    /\ Len(commentaries) = 2
    /\ \E i \in 1..Len(LastEntries) :
          /\ "verse_end" \in DOMAIN LastEntries[i]
          /\ Cardinality({r \in 1..Len(df.rows) : Covers(LastEntries[i], df.rows[r])}) = 2
          /\ \A r \in 1..Len(df.rows) :
                Covers(LastEntries[i], df.rows[r]) <=>
                    InSeq(LastEntries[i].content, JoinedContents(df.rows[r]))

\* ------------------------------------------------------------------------
\* _process_xml_commentary
\* ------------------------------------------------------------------------
\* The parsed file is the list of its entry elements.  An element is
\* [content, tradition, reference, author]: the text of the content
\* sub-element, the tradition attribute, the attributes of the reference
\* sub-element and the author sub-element, each None when missing.

\* The truth value of an attribute: None and '' are false
Truthy(a) == a # None /\ Val(a) # <<>>

\* int() accepts a string of decimal digits
IsNumeral(str) == Len(str) > 0 /\ \A i \in 1..Len(str) : str[i] \in DigitChars

\* int(a) if a else None
IntAttr(a) == IF Truthy(a) THEN Some(StrToInt(Val(a))) ELSE None
IntAttrRaises(a) == Truthy(a) /\ ~IsNumeral(Val(a))

\* The fields the reference sub-element adds to the record
ReferenceFields(ref) ==
    [book |-> ref.book,
     chapter |-> IntAttr(ref.chapter),
     verse_start |-> IntAttr(ref.verse_start),
     verse_end |-> IF Truthy(ref.verse_end) THEN IntAttr(ref.verse_end)
                   ELSE IntAttr(ref.verse_start)]

\* The fields the author sub-element adds to the record
AuthorFields(author) == [author |-> author.text, year |-> IntAttr(author.year)]

\* The record of an entry element that has a content sub-element
XmlEntryRecord(elem, source) ==
    [source |-> source,
     content |-> clean_commentary_text(Val(elem.content)),
     tradition |-> IF elem.tradition = None THEN "unknown" ELSE Val(elem.tradition)]
    @@ (IF elem.reference # None THEN ReferenceFields(Val(elem.reference)) ELSE <<>>)
    @@ (IF elem.author # None THEN AuthorFields(Val(elem.author)) ELSE <<>>)

\* The exception the loop body raises for an entry element: find('content')
\* is None for an entry without content, and None has no attribute text
XmlEntryError(elem) ==
    IF elem.content = None THEN "AttributeError"
    ELSE IF /\ elem.reference # None
            /\ \/ IntAttrRaises(Val(elem.reference).chapter)
               \/ IntAttrRaises(Val(elem.reference).verse_start)
               \/ IntAttrRaises(Val(elem.reference).verse_end)
         THEN "ValueError"
    ELSE IF elem.author # None /\ IntAttrRaises(Val(elem.author).year)
         THEN "ValueError"
    ELSE "none"

\* for entry_elem in soup.find_all('entry'): ... entries.append(entry)
RECURSIVE XmlEntries(_, _, _, _)
XmlEntries(elems, i, acc, source) ==
    IF i > Len(elems) THEN [err |-> "none", entries |-> acc]
    ELSE IF XmlEntryError(elems[i]) # "none"
         THEN [err |-> XmlEntryError(elems[i]), entries |-> acc]
         ELSE XmlEntries(elems, i + 1, Append(acc, XmlEntryRecord(elems[i], source)),
                         source)

\* The call returns or raises; the caller stores the returned list under
\* the source identifier (commentaries[source] = entries) and goes on to
\* the alignment.
XmlCommentaryOutcome(b) ==
    IF b.err # "none"
    THEN /\ pc' = "parse_raised"
         /\ err' = b.err
         /\ UNCHANGED <<entries, commentaries>>
    ELSE /\ pc' = "align_collect"
         /\ entries' = b.entries
         /\ commentaries' = <<<<SourceNames[1], b.entries>>>>
         /\ err' = err

XmlCommentaryParse ==
    /\ pc = "xmlc_parse"
    /\ XmlCommentaryOutcome(XmlEntries(doc, 1, <<>>, SourceNames[1]))
    /\ UNCHANGED <<cleanVars, txtVars, doc, bibles, all_refs, df, src_idx,
                   commentary_map>>

\* Entry elements
NoAttr == [book |-> None, chapter |-> None, verse_start |-> None, verse_end |-> None]
XmlEntryElems ==
    { [content |-> Some(<<"x">>), tradition |-> Some("patristic"), author |-> None,
       reference |-> Some([book |-> Some(J), chapter |-> Some(<<"1">>),
                           verse_start |-> Some(<<"1">>), verse_end |-> Some(<<"2">>)])],
      [content |-> Some(<<"l", "o", "r", "d">>), tradition |-> None, author |-> None,
       reference |-> Some([NoAttr EXCEPT !.book = Some(J), !.chapter = Some(<<"1">>),
                                         !.verse_start = Some(<<"2">>)])],
      [content |-> Some(<<"z">>), tradition |-> None, reference |-> None,
       author |-> Some([text |-> <<"a">>, year |-> Some(<<"1", "6">>)])],
      [content |-> None, tradition |-> None, author |-> None,
       reference |-> Some([NoAttr EXCEPT !.book = Some(J), !.chapter = Some(<<"1">>),
                                         !.verse_start = Some(<<"1">>)])],
      [content |-> Some(<<"y">>), tradition |-> None, author |-> None,
       reference |-> Some([NoAttr EXCEPT !.chapter = Some(<<"1">>),
                                         !.verse_start = Some(<<"1">>)])],
      [content |-> Some(<<"y">>), tradition |-> None, author |-> None,
       reference |-> Some([NoAttr EXCEPT !.book = Some(J), !.chapter = Some(<<"1">>)])],
      [content |-> Some(<<"z">>), tradition |-> None, author |-> None,
       reference |-> Some([NoAttr EXCEPT !.book = Some(J),
                                         !.verse_start = Some(<<"1">>)])],
      [content |-> Some(<<"x">>), tradition |-> None, author |-> None,
       reference |-> Some([NoAttr EXCEPT !.chapter = Some(<<"3">>)])] }

\* The lists of at most n elements of E
RECURSIVE ElemLists(_, _)
ElemLists(E, n) ==
    IF n = 0 THEN {<<>>}
    ELSE ElemLists(E, n - 1) \cup
         {Append(l, e) : l \in {q \in ElemLists(E, n - 1) : Len(q) = n - 1}, e \in E}

InitXmlCommentary ==
    /\ pc = "xmlc_parse"
    /\ err = "none"
    /\ IdleClean
    /\ IdleTxt
    /\ doc \in ElemLists(XmlEntryElems, MaxElems)
    /\ entries = <<>>
    /\ bibles \in JoinBibles
    /\ commentaries = <<>>
    /\ all_refs = <<>>
    /\ df = [rows |-> <<>>, cols |-> <<>>]
    /\ src_idx = 0
    /\ commentary_map = <<>>

NextXmlCommentary == XmlCommentaryParse \/ NextAlign

SpecXmlCommentary == InitXmlCommentary /\ [][NextXmlCommentary]_vars

\* A record whose book, chapter and first verse are not all known
Unresolvable(rec) ==
    \/ ~HasReferenceKeys(rec)
    \/ rec.book = None \/ rec.chapter = None \/ rec.verse_start = None

HasUnresolvable ==
    \E s \in 1..Len(commentaries) : \E i \in 1..Len(commentaries[s][2]) :
        Unresolvable(commentaries[s][2][i])

XmlParsed == pc \notin {"xmlc_parse", "parse_raised"}

\* The exceptions the commentary loop of create_verse_aligned_dataset raises
\* on a record
RecordErrors == {"TypeError", "KeyError"}

\* C4: a record without a resolvable reference is kept by the parser, does
\* not make create_verse_aligned_dataset raise, and is in the cell of no
\* row.
C4_UnresolvableIgnored ==
    /\ XmlParsed =>
          \A i \in 1..Len(doc) :
              /\ i <= Len(entries)
              /\ entries[i].content = clean_commentary_text(Val(doc[i].content))
    /\ HasUnresolvable => ~(pc = "align_raised" /\ err \in RecordErrors)
    /\ ColumnJustAdded =>
          \A i \in 1..Len(LastEntries) : \A r \in 1..Len(df.rows) :
              Unresolvable(LastEntries[i]) =>
                  Occurrences(LastEntries[i].content, JoinedContents(df.rows[r])) =
                      Cardinality({j \in 1..Len(LastEntries) :
                                      /\ ~Unresolvable(LastEntries[j])
                                      /\ LastEntries[j].content = LastEntries[i].content
                                      /\ Covers(LastEntries[j], df.rows[r])})

\* C9: an entry without a content sub-element does not make the parser
\* raise; the parser returns the records of the other entries, in document
\* order, and no record for that entry.
EntriesWithContent == SelectSeq(doc, LAMBDA e : e.content # None)
C9_EntrySkipped ==
    /\ err # "AttributeError"
    /\ XmlParsed =>
          /\ Len(entries) = Len(EntriesWithContent)
          /\ \A i \in 1..Len(entries) :
                entries[i] = XmlEntryRecord(EntriesWithContent[i], SourceNames[1])

\* ------------------------------------------------------------------------
\* _process_xml_bible
\* ------------------------------------------------------------------------
\* The parsed file is the list of its book elements: a book is
\* [name, chapters], a chapter [number, verses], a verse [number, text];
\* name and number are None when the attribute is missing.

\* The exception int(elem.get('number')) raises: int(None) is a TypeError,
\* int of a string that is no numeral a ValueError
IntError(a) ==
    IF a = None THEN "TypeError"
    ELSE IF ~IsNumeral(Val(a)) THEN "ValueError"
    ELSE "none"

\* The key book_elem.get('name') gives: the name, or None
NameKey(name) == IF name = None THEN None ELSE Val(name)

\* for verse_elem in chapter_elem.find_all('verse')
RECURSIVE XmlVerses(_, _, _)
XmlVerses(verses, i, chapter_data) ==
    IF i > Len(verses) THEN [err |-> "none", data |-> chapter_data]
    ELSE IF IntError(verses[i].number) # "none"
         THEN [err |-> IntError(verses[i].number), data |-> chapter_data]
         ELSE XmlVerses(verses, i + 1,
                        DictSet(chapter_data, StrToInt(Val(verses[i].number)),
                                clean_bible_text(verses[i].text)))

\* book_data[chapter_num] = chapter_data, unless the verse loop raised
XmlChapterStore(chapters, i, book_data, r) ==
    IF r.err # "none" THEN [err |-> r.err, data |-> book_data]
    ELSE [err |-> "none",
          data |-> DictSet(book_data, StrToInt(Val(chapters[i].number)), r.data)]

\* for chapter_elem in book_elem.find_all('chapter')
RECURSIVE XmlChapters(_, _, _)
XmlChapters(chapters, i, book_data) ==
    IF i > Len(chapters) THEN [err |-> "none", data |-> book_data]
    ELSE IF IntError(chapters[i].number) # "none"
         THEN [err |-> IntError(chapters[i].number), data |-> book_data]
    ELSE IF XmlVerses(chapters[i].verses, 1, <<>>).err # "none"
         THEN [err |-> XmlVerses(chapters[i].verses, 1, <<>>).err, data |-> book_data]
         ELSE XmlChapters(chapters, i + 1,
                          XmlChapterStore(chapters, i, book_data,
                                          XmlVerses(chapters[i].verses, 1, <<>>)).data)

\* One turn of the loop over the book elements:
\* bible_data[book_name] = book_data, or the exception of an inner loop
XmlBookOutcome(book, r) ==
    IF r.err # "none"
    THEN /\ pc' = "parse_raised"
         /\ err' = r.err
         /\ UNCHANGED <<pos, bible_data>>
    ELSE /\ bible_data' = DictSet(bible_data, NameKey(book.name), r.data)
         /\ pos' = pos + 1
         /\ UNCHANGED <<pc, err>>

XmlBibleBook ==
    /\ pc = "xmlb_loop"
    /\ pos < Len(doc)
    /\ XmlBookOutcome(doc[pos + 1], XmlChapters(doc[pos + 1].chapters, 1, <<>>))
    /\ UNCHANGED <<cleanVars, content, matches, alignVars, parseVars>>

\* return bible_data
XmlBibleReturn ==
    /\ pc = "xmlb_loop"
    /\ pos = Len(doc)
    /\ pc' = "xmlb_done"
    /\ UNCHANGED <<err, cleanVars, txtVars, alignVars, parseVars>>

\* Book elements
XmlVerse(number, t) == [number |-> number, text |-> t]
XmlChapter(number, verses) == [number |-> number, verses |-> verses]
XmlBook(name, chapters) == [name |-> name, chapters |-> chapters]
One == Some(<<"1">>)
Two == Some(<<"2">>)
XmlBookElems ==
    { XmlBook(Some(J), <<XmlChapter(One, <<XmlVerse(One, <<"a">>),
                                           XmlVerse(Two, <<"b", " ">>)>>)>>),
      XmlBook(Some(J), <<XmlChapter(Two, <<XmlVerse(One, <<"c">>)>>)>>),
      XmlBook(Some(M), <<XmlChapter(One, <<XmlVerse(One, <<"a">>)>>)>>),
      XmlBook(Some(J), <<XmlChapter(None, <<XmlVerse(One, <<"a">>)>>)>>),
      XmlBook(Some(J), <<XmlChapter(One, <<XmlVerse(None, <<"a">>),
                                           XmlVerse(Two, <<"b">>)>>)>>),
      XmlBook(Some(M), <<XmlChapter(None, <<XmlVerse(One, <<"a">>)>>),
                         XmlChapter(Two, <<XmlVerse(One, <<"c">>)>>)>>),
      XmlBook(Some(J), <<XmlChapter(One, <<XmlVerse(One, <<"a">>)>>),
                         XmlChapter(One, <<XmlVerse(Two, <<"b">>)>>)>>),
      XmlBook(Some(M), <<>>),
      XmlBook(None, <<XmlChapter(One, <<XmlVerse(One, <<"a">>)>>)>>),
      XmlBook(Some(J), <<XmlChapter(One, <<XmlVerse(One, <<"a">>),
                                           XmlVerse(One, <<"c">>)>>)>>),
      XmlBook(Some(M), <<XmlChapter(Some(<<"a">>), <<XmlVerse(One, <<"a">>)>>)>>) }

InitXmlBible ==
    /\ pc = "xmlb_loop"
    /\ err = "none"
    /\ IdleClean
    /\ IdleTxt
    /\ IdleAlign
    /\ doc \in ElemLists(XmlBookElems, MaxElems)
    /\ entries = <<>>

NextXmlBible == XmlBibleBook \/ XmlBibleReturn

SpecXmlBible == InitXmlBible /\ [][NextXmlBible]_vars

\* No book name is on two book elements of the file and no chapter number
\* on two chapter elements of one book
NoRepeatedContainer ==
    /\ \A i, j \in 1..Len(doc) : doc[i].name = doc[j].name => i = j
    /\ \A b \in 1..Len(doc) : \A i, j \in 1..Len(doc[b].chapters) :
          doc[b].chapters[i].number = doc[b].chapters[j].number => i = j

\* C8: a chapter or verse element without its number attribute is skipped
\* alone: the parser does not raise on it, and the corpus it returns has
\* the key of every verse whose own number and whose chapter's number are
\* numerals.
C8_ElementSkipped ==
    /\ ~(pc = "parse_raised" /\ err = "TypeError")
    /\ (pc = "xmlb_done" /\ NoRepeatedContainer) =>
          \A b \in 1..Len(doc) : \A c \in 1..Len(doc[b].chapters) :
              \A v \in 1..Len(doc[b].chapters[c].verses) :
                  (/\ IntError(doc[b].chapters[c].number) = "none"
                   /\ IntError(doc[b].chapters[c].verses[v].number) = "none")
                  => HasVerse(bible_data, NameKey(doc[b].name),
                              StrToInt(Val(doc[b].chapters[c].number)),
                              StrToInt(Val(doc[b].chapters[c].verses[v].number)))

\* ------------------------------------------------------------------------
\* _process_json_bible, _process_json_commentary
\* ------------------------------------------------------------------------
\* The file content is None when json.loads raises JSONDecodeError on it,
\* and Some(value) when json.loads returns value.  A value carries its type:
\* a string its characters, a number itself, an array its items, an object
\* its <<key, value>> pairs in order.
JStr(chars) == [jtype |-> "str", jval |-> chars]
JNum(n) == [jtype |-> "num", jval |-> <<n>>]
JArr(items) == [jtype |-> "arr", jval |-> items]
JObj(pairs) == [jtype |-> "obj", jval |-> pairs]
JNull == [jtype |-> "null", jval |-> <<>>]

KeyBooks == <<"b", "o", "o", "k", "s">>
KeyName == <<"n", "a", "m", "e">>
KeyChapters == <<"c", "h", "a", "p", "t", "e", "r", "s">>
KeyNumber == <<"n", "u", "m", "b", "e", "r">>
KeyVerses == <<"v", "e", "r", "s", "e", "s">>
KeyText == <<"t", "e", "x", "t">>
KeyEntries == <<"e", "n", "t", "r", "i", "e", "s">>
KeySource == <<"s", "o", "u", "r", "c", "e">>
KeyContent == <<"c", "o", "n", "t", "e", "n", "t">>

\* An evaluation returns a value or raises
Ok(v) == [err |-> "none", val |-> v]
Raise(e) == [err |-> e, val |-> <<>>]
Then(r, F(_)) == IF r.err # "none" THEN Raise(r.err) ELSE F(r.val)

IsSubstring(sub, str) ==
    \E i \in 1..(Len(str) - Len(sub) + 1) : SubSeq(str, i, i + Len(sub) - 1) = sub

\* key in data
KeyIn(key, data) ==
    CASE data.jtype = "obj" -> Ok(DictHas(data.jval, key))
      [] data.jtype = "arr" -> Ok(\E i \in 1..Len(data.jval) : data.jval[i] = JStr(key))
      [] data.jtype = "str" -> Ok(IsSubstring(key, data.jval))
      [] OTHER -> Raise("TypeError")

\* data[key] for a string key
GetItem(data, key) ==
    IF data.jtype # "obj" THEN Raise("TypeError")
    ELSE IF ~DictHas(data.jval, key) THEN Raise("KeyError")
    ELSE Ok(DictGet(data.jval, key))

\* The items a for loop over data visits: the items of an array, the keys
\* of an object, the characters of a string
Iterate(data) ==
    CASE data.jtype = "arr" -> Ok(data.jval)
      [] data.jtype = "obj" -> Ok([i \in 1..Len(data.jval) |-> JStr(data.jval[i][1])])
      [] data.jtype = "str" -> Ok([i \in 1..Len(data.jval) |-> JStr(<<data.jval[i]>>)])
      [] OTHER -> Raise("TypeError")

\* data.items(), each pair as <<JStr(key), value>>
Items(data) ==
    IF data.jtype # "obj" THEN Raise("AttributeError")
    ELSE Ok([i \in 1..Len(data.jval) |-> <<JStr(data.jval[i][1]), data.jval[i][2]>>])

\* int(value)
ToInt(value) ==
    CASE value.jtype = "num" -> Ok(value.jval[1])
      [] value.jtype = "str" -> IF IsNumeral(value.jval) THEN Ok(StrToInt(value.jval))
                            ELSE Raise("ValueError")
      [] OTHER -> Raise("TypeError")

\* clean_bible_text(value), clean_commentary_text(value): unicodedata
\* normalizes strings only
CleanBible(value) ==
    IF value.jtype = "str" THEN Ok(clean_bible_text(value.jval)) ELSE Raise("TypeError")
CleanCommentary(value) ==
    IF value.jtype = "str" THEN Ok(JStr(clean_commentary_text(value.jval)))
    ELSE Raise("TypeError")

\* d[key] = data for a key taken from the file: arrays and objects are
\* unhashable
StoreUnder(d, key, data) ==
    IF key.jtype \in {"arr", "obj"} THEN Raise("TypeError")
    ELSE Ok(DictSet(d, key.jval, data))

\* Format {"books": [...]}: the body of the loop over chapter['verses']
JsonVerseStore(verse, chapter_data, n) ==
    Then(Then(GetItem(verse, KeyText), CleanBible),
         LAMBDA t : Ok(DictSet(chapter_data, n, t)))
JsonVerseStep(verse, chapter_data) ==
    Then(Then(GetItem(verse, KeyNumber), ToInt),
         LAMBDA n : JsonVerseStore(verse, chapter_data, n))
RECURSIVE JsonVerseLoop(_, _, _)
JsonVerseLoop(items, i, acc) ==
    IF i > Len(items) THEN Ok(acc)
    ELSE Then(JsonVerseStep(items[i], acc), LAMBDA a : JsonVerseLoop(items, i + 1, a))

\* the body of the loop over book['chapters']
JsonChapterStore(chapter, book_data, n) ==
    Then(Then(Then(GetItem(chapter, KeyVerses), Iterate),
              LAMBDA verses : JsonVerseLoop(verses, 1, <<>>)),
         LAMBDA chapter_data : Ok(DictSet(book_data, n, chapter_data)))
JsonChapterStep(chapter, book_data) ==
    Then(Then(GetItem(chapter, KeyNumber), ToInt),
         LAMBDA n : JsonChapterStore(chapter, book_data, n))
RECURSIVE JsonChapterLoop(_, _, _)
JsonChapterLoop(items, i, acc) ==
    IF i > Len(items) THEN Ok(acc)
    ELSE Then(JsonChapterStep(items[i], acc),
              LAMBDA a : JsonChapterLoop(items, i + 1, a))

\* the body of the loop over data['books']
JsonBookStore(book, bd, book_name) ==
    Then(Then(Then(GetItem(book, KeyChapters), Iterate),
              LAMBDA chapters : JsonChapterLoop(chapters, 1, <<>>)),
         LAMBDA book_data : StoreUnder(bd, book_name, book_data))
JsonBookStep(book, bd) ==
    Then(GetItem(book, KeyName), LAMBDA book_name : JsonBookStore(book, bd, book_name))
RECURSIVE JsonBookLoop(_, _, _)
JsonBookLoop(items, i, acc) ==
    IF i > Len(items) THEN Ok(acc)
    ELSE Then(JsonBookStep(items[i], acc), LAMBDA a : JsonBookLoop(items, i + 1, a))

\* Format {book: {chapter: {verse: text}}}: the body of the loop over
\* verses.items()
JsonVersePair(pair, chapter_data) ==
    Then(ToInt(pair[1]),
         LAMBDA n : Then(CleanBible(pair[2]),
                         LAMBDA t : Ok(DictSet(chapter_data, n, t))))
RECURSIVE JsonVersePairs(_, _, _)
JsonVersePairs(items, i, acc) ==
    IF i > Len(items) THEN Ok(acc)
    ELSE Then(JsonVersePair(items[i], acc), LAMBDA a : JsonVersePairs(items, i + 1, a))

\* the body of the loop over chapters.items()
JsonChapterPair(pair, book_data) ==
    Then(ToInt(pair[1]),
         LAMBDA n : Then(Then(Items(pair[2]),
                              LAMBDA verses : JsonVersePairs(verses, 1, <<>>)),
                         LAMBDA chapter_data : Ok(DictSet(book_data, n, chapter_data))))
RECURSIVE JsonChapterPairs(_, _, _)
JsonChapterPairs(items, i, acc) ==
    IF i > Len(items) THEN Ok(acc)
    ELSE Then(JsonChapterPair(items[i], acc),
              LAMBDA a : JsonChapterPairs(items, i + 1, a))

\* the body of the loop over data.items()
JsonBookPair(pair, bd) ==
    Then(Then(Items(pair[2]), LAMBDA chapters : JsonChapterPairs(chapters, 1, <<>>)),
         LAMBDA book_data : StoreUnder(bd, pair[1], book_data))
RECURSIVE JsonBookPairs(_, _, _)
JsonBookPairs(items, i, acc) ==
    IF i > Len(items) THEN Ok(acc)
    ELSE Then(JsonBookPair(items[i], acc), LAMBDA a : JsonBookPairs(items, i + 1, a))

\* The try block of _process_json_bible on the value json.loads returned
JsonBibleBody(data) ==
    Then(KeyIn(KeyBooks, data),
         LAMBDA has_books :
             IF has_books
             THEN Then(Then(GetItem(data, KeyBooks), Iterate),
                       LAMBDA books : JsonBookLoop(books, 1, <<>>))
             ELSE Then(Items(data), LAMBDA books : JsonBookPairs(books, 1, <<>>)))

\* except json.JSONDecodeError: return {}
process_json_bible(file) ==
    IF file = None THEN Ok(<<>>) ELSE JsonBibleBody(Val(file))

\* The body of the loops of _process_json_commentary over the items
JsonItemClean(pairs) ==
    IF ~DictHas(pairs, KeyContent) THEN Ok(pairs)
    ELSE Then(CleanCommentary(DictGet(pairs, KeyContent)),
              LAMBDA c : Ok(DictSet(pairs, KeyContent, c)))
JsonItemStep(item, acc, source) ==
    IF item.jtype # "obj" THEN Raise("TypeError")
    ELSE Then(JsonItemClean(DictSet(item.jval, KeySource, JStr(source))),
              LAMBDA pairs : Ok(Append(acc, JObj(pairs))))
RECURSIVE JsonItemLoop(_, _, _, _)
JsonItemLoop(items, i, acc, source) ==
    IF i > Len(items) THEN Ok(acc)
    ELSE Then(JsonItemStep(items[i], acc, source),
              LAMBDA a : JsonItemLoop(items, i + 1, a, source))

\* The try block of _process_json_commentary
JsonCommentaryBody(data, source) ==
    IF data.jtype = "arr" THEN JsonItemLoop(data.jval, 1, <<>>, source)
    ELSE IF data.jtype = "obj" /\ DictHas(data.jval, KeyEntries)
         THEN Then(Iterate(DictGet(data.jval, KeyEntries)),
                   LAMBDA items : JsonItemLoop(items, 1, <<>>, source))
    ELSE Ok(<<>>)

\* except json.JSONDecodeError: return []
process_json_commentary(file, source) ==
    IF file = None THEN Ok(<<>>) ELSE JsonCommentaryBody(Val(file), source)

\* The call of a JSON parser on the file returns or raises
JsonBibleOutcome(r) ==
    IF r.err # "none"
    THEN pc' = "parse_raised" /\ err' = r.err /\ UNCHANGED bible_data
    ELSE pc' = "jsonb_done" /\ bible_data' = r.val /\ UNCHANGED err

JsonBibleParse ==
    /\ pc = "json_parse"
    /\ JsonBibleOutcome(process_json_bible(doc))
    /\ UNCHANGED <<cleanVars, content, pos, matches, alignVars, parseVars>>

JsonCommentaryOutcome(r) ==
    IF r.err # "none"
    THEN pc' = "parse_raised" /\ err' = r.err /\ UNCHANGED entries
    ELSE pc' = "jsonc_done" /\ entries' = r.val /\ UNCHANGED err

SourceChars == <<"S", "1">>

JsonCommentaryParse ==
    /\ pc = "json_parse"
    /\ JsonCommentaryOutcome(process_json_commentary(doc, SourceChars))
    /\ UNCHANGED <<cleanVars, txtVars, alignVars, doc>>

\* Files
JsonVerse(number, t) == JObj(<<<<KeyNumber, number>>, <<KeyText, t>>>>)
JsonChapter(number, verses) ==
    JObj(<<<<KeyNumber, number>>, <<KeyVerses, JArr(verses)>>>>)
JsonBook(name, chapters) ==
    JObj(<<<<KeyName, JStr(name)>>, <<KeyChapters, JArr(chapters)>>>>)
JsonBooks ==
    { JsonBook(J, <<JsonChapter(JNum(1), <<JsonVerse(JNum(1), JStr(<<"a">>)),
                                           JsonVerse(JStr(<<"2">>), JStr(<<"b", " ">>))>>)>>),
      JsonBook(J, <<JsonChapter(JNum(2), <<JsonVerse(JNum(1), JStr(<<"c">>))>>)>>),
      JsonBook(M, <<JsonChapter(JNum(1), <<JsonVerse(JNum(1), JStr(<<"a">>))>>)>>),
      JObj(<<<<KeyChapters, JArr(<<>>)>>>>),
      JObj(<<<<KeyName, JStr(M)>>>>),
      JNum(5),
      JsonBook(M, <<JObj(<<<<KeyVerses, JArr(<<>>)>>>>)>>),
      JsonBook(M, <<JsonChapter(JNum(1), <<JObj(<<<<KeyNumber, JNum(1)>>>>)>>)>>) }
JsonNested ==
    { JObj(<<<<J, JObj(<<<<<<"1">>, JObj(<<<<<<"1">>, JStr(<<"a">>)>>,
                                          <<<<"2">>, JStr(<<"b", " ">>)>>>>)>>>>)>>,
             <<M, JObj(<<>>)>>>>),
      JObj(<<<<J, JObj(<<<<<<"a">>, JObj(<<>>)>>>>)>>>>),
      JObj(<<<<J, JArr(<<>>)>>>>),
      JObj(<<<<J, JObj(<<<<<<"1">>, JObj(<<<<<<"1">>, JNum(1)>>>>)>>>>)>>>>),
      JObj(<<>>) }
JsonOther ==
    { JArr(<<>>), JArr(<<JNum(1)>>), JArr(<<JStr(KeyBooks)>>), JNum(5), JNull,
      JStr(<<"a">>), JStr(KeyBooks) }
JsonItems ==
    { JObj(<<<<KeyContent, JStr(<<"l", "o", "r", "d">>)>>, <<KeyBooks, JStr(J)>>>>),
      JObj(<<<<KeySource, JStr(<<"x">>)>>, <<KeyContent, JStr(<<"a", " ">>)>>>>),
      JObj(<<<<KeyName, JStr(J)>>>>),
      JObj(<<<<KeyContent, JNum(1)>>>>),
      JNum(1),
      JStr(<<"a">>) }
JsonCommentaryFiles ==
    {JArr(l) : l \in ElemLists(JsonItems, MaxElems)} \cup
    { JObj(<<<<KeyEntries, JArr(<<JObj(<<<<KeyContent, JStr(<<"a">>)>>>>)>>)>>>>),
      JObj(<<<<KeyEntries, JArr(<<JNum(1)>>)>>>>),
      JObj(<<<<KeyEntries, JNum(1)>>>>),
      JObj(<<<<KeyEntries, JObj(<<<<KeyName, JNum(1)>>>>)>>>>),
      JObj(<<<<KeyEntries, JStr(<<>>)>>>>) }
JsonFiles ==
    {None} \cup
    {Some(v) : v \in {JObj(<<<<KeyBooks, JArr(l)>>>>) : l \in ElemLists(JsonBooks, MaxElems)}
                     \cup {JObj(<<<<KeyBooks, JNum(1)>>>>)}
                     \cup JsonNested \cup JsonOther \cup JsonCommentaryFiles}

InitJson ==
    /\ pc = "json_parse"
    /\ err = "none"
    /\ IdleClean
    /\ IdleTxt
    /\ IdleAlign
    /\ doc \in JsonFiles
    /\ entries = <<>>

NextJson == JsonBibleParse \/ JsonCommentaryParse

SpecJson == InitJson /\ [][NextJson]_vars

\* C10: the JSON parsers propagate no exception; for content that is not
\* valid JSON they return the empty corpus and the empty list.
C10_NoPropagation ==
    /\ pc # "parse_raised"
    /\ (pc = "jsonb_done" /\ doc = None) => bible_data = <<>>
    /\ (pc = "jsonc_done" /\ doc = None) => entries = <<>>

\* The items of a commentary file the JSON parser loops over
JsonItemsOf(data) ==
    IF data.jtype = "arr" THEN data.jval
    ELSE IF data.jtype = "obj" /\ DictHas(data.jval, KeyEntries)
              /\ DictGet(data.jval, KeyEntries).jtype = "arr"
         THEN DictGet(data.jval, KeyEntries).jval
    ELSE <<>>

\* C11: every record a commentary parser returns has the source identifier
\* passed to the parser as its source and has a content field holding the
\* cleaned text of its item; here for the JSON parser.
C11_SourceAndContent ==
    pc = "jsonc_done" =>
        \A i \in 1..Len(entries) :
            /\ DictHas(entries[i].jval, KeySource)
            /\ DictGet(entries[i].jval, KeySource) = JStr(SourceChars)
            /\ DictHas(entries[i].jval, KeyContent)
            /\ DictGet(entries[i].jval, KeyContent).jtype = "str"
            /\ doc # None =>
                  /\ i <= Len(JsonItemsOf(Val(doc)))
                  /\ DictHas(JsonItemsOf(Val(doc))[i].jval, KeyContent)
                  /\ DictGet(entries[i].jval, KeyContent).jval =
                        clean_commentary_text(
                            DictGet(JsonItemsOf(Val(doc))[i].jval, KeyContent).jval)

\* ------------------------------------------------------------------------
\* Specification of clean_commentary_text: a commentary text is cleaned.
\* ------------------------------------------------------------------------
TermPieces ==
    { <<"l", "o", "r", "d">>, <<"L", "o", "R", "D">>, <<"L", "O", "R", "D">>,
      <<"y", "h", "w", "h">>, <<"J", "h", "v", "H">>,
      <<"s", "o", "n", " ", "o", "F", " ", "m", "a", "n">>,
      <<" ">>, <<"\n">>, <<"s">>, <<"_">>, <<",">>, <<"[">>, <<"]">>, <<"*">> }

InitTerms ==
    /\ pc = "commentary_input"
    /\ err = "none"
    /\ text \in Concats(TermPieces, MaxPieces)
    /\ out1 = <<>>
    /\ out2 = <<>>
    /\ IdleTxt
    /\ IdleAlign
    /\ IdleParse

\* out1 is the normalized text, out2 the cleaned commentary text
CommentaryClean ==
    /\ pc = "commentary_input"
    /\ out1' = normalize_text(text)
    /\ out2' = clean_commentary_text(text)
    /\ pc' = "commentary_cleaned"
    /\ UNCHANGED <<err, text, txtVars, alignVars, parseVars>>

NextTerms == CommentaryClean

SpecTerms == InitTerms /\ [][NextTerms]_vars

ProtectedTerms == {TermYHWH, TermJHVH, TermLORD, TermSonOfMan}

\* t holds term at index i in some casing, whatever stands around it
CasingAt(t, i, term) ==
    /\ i + Len(term) - 1 <= Len(t)
    /\ \A k \in 1..Len(term) : ToLower(t[i + k - 1]) = ToLower(term[k])
CanonicalAt(t, i, term) ==
    i + Len(term) - 1 <= Len(t) /\ SubSeq(t, i, i + Len(term) - 1) = term

CoveringContents(recs, row) ==
    [i \in 1..Len(SelectSeq(recs, LAMBDA e : Covers(e, row))) |->
        SelectSeq(recs, LAMBDA e : Covers(e, row))[i].content]

\* The column the table holds for the s-th source
ColumnOfSource(s) == DictGet(df.cols, <<"commentary", commentaries[s][1]>>)

\* C13: the cell of a row in the column of a source is the contents of the
\* records of that source that cover the row, each record once, in the
\* order of the record list, joined with "; "; it is the empty string when
\* no record covers the row.
C13_CellContents ==
    pc \in {"align_comm", "align_done"} =>
        \A s \in 1..(src_idx - 1) : \A r \in 1..Len(df.rows) :
            /\ ColumnOfSource(s)[r] =
                  Join(CoveringContents(commentaries[s][2], df.rows[r]), 1)
            /\ (\A i \in 1..Len(commentaries[s][2]) :
                    ~Covers(commentaries[s][2][i], df.rows[r]))
                  => ColumnOfSource(s)[r] = <<>>

\* A cell joins the different contents of two records in list order, and
\* another cell of the column is empty
C13_Witness ==
    /\ pc = "align_done"
    /\ \E s \in 1..Len(commentaries) : \E r, q \in 1..Len(df.rows) :
          /\ Len(CoveringContents(commentaries[s][2], df.rows[r])) = 2
          /\ CoveringContents(commentaries[s][2], df.rows[r])[1] = <<"y">>
          /\ ColumnOfSource(s)[r] = <<"y", ";", " ", "x">>
          /\ ColumnOfSource(s)[q] = <<>>

\* ------------------------------------------------------------------------
\* The order of the rows
\* ------------------------------------------------------------------------
\* The places <<translation, book, chapter, verse>>, each an index in the
\* order of its dict, at which the iteration over bibles meets key k
Places(k) ==
    {p \in UNION {UNION {UNION {{<<t, b, c, v>> :
                                    v \in 1..Len(bibles[t][2][b][2][c][2])} :
                                c \in 1..Len(bibles[t][2][b][2])} :
                         b \in 1..Len(bibles[t][2])} :
                  t \in 1..Len(bibles)} :
        <<bibles[p[1]][2][p[2]][1],
          bibles[p[1]][2][p[2]][2][p[3]][1],
          bibles[p[1]][2][p[2]][2][p[3]][2][p[4]][1]>> = k}

\* Place p is met before place q
MetBefore(p, q) ==
    \E i \in 1..4 : p[i] < q[i] /\ \A j \in 1..(i - 1) : p[j] = q[j]

FirstPlace(k) ==
    CHOOSE p \in Places(k) : \A q \in Places(k) : p = q \/ MetBefore(p, q)

\* C14: the rows are in first-encounter order: the row of k1 is before the
\* row of k2 exactly when k1 is first met before k2 in the iteration over
\* the translations, books, chapters and verses.
C14_FirstEncounterOrder ==
    TableBuilt =>
        \A r1, r2 \in 1..Len(df.rows) :
            r1 < r2 <=> MetBefore(FirstPlace(KeyOfRow(df.rows[r1])),
                                  FirstPlace(KeyOfRow(df.rows[r2])))

\* The second translation starts with a key the first lacks and goes on
\* with the key of the first: the shared key has the first row
C14_Witness ==
    /\ pc = "align_done"
    /\ Len(bibles) = 2
    /\ Len(df.rows) = 2
    /\ Places(KeyOfRow(df.rows[1])) = {<<1, 1, 1, 1>>, <<2, 2, 1, 1>>}
    /\ Places(KeyOfRow(df.rows[2])) = {<<2, 1, 1, 1>>}

\* ------------------------------------------------------------------------
\* Specification of normalize_text: a text is normalized.
\* ------------------------------------------------------------------------
NormalizeAlphabet == {"a", " ", "\n", "[", "]", "*"}

InitNormalize ==
    /\ pc = "normalize_input"
    /\ err = "none"
    /\ text \in TextsUpTo(NormalizeAlphabet, MaxTextLen)
    /\ out1 = <<>>
    /\ out2 = <<>>
    /\ IdleTxt
    /\ IdleAlign
    /\ IdleParse

Normalize ==
    /\ pc = "normalize_input"
    /\ out1' = normalize_text(text)
    /\ pc' = "normalized"
    /\ UNCHANGED <<err, text, out2, txtVars, alignVars, parseVars>>

NextNormalize == Normalize

SpecNormalize == InitNormalize /\ [][NextNormalize]_vars

\* C15: the output of normalize_text has no whitespace at its start or end
\* and no two whitespace characters in a row, and its whitespace characters
\* are spaces.
C15_WhitespaceCollapsed ==
    pc = "normalized" =>
        /\ Len(out1) > 0 =>
              out1[1] \notin WhitespaceChars /\ out1[Len(out1)] \notin WhitespaceChars
        /\ \A i \in 1..(Len(out1) - 1) :
              ~(out1[i] \in WhitespaceChars /\ out1[i + 1] \in WhitespaceChars)
        /\ \A i \in 1..Len(out1) : out1[i] \in WhitespaceChars => out1[i] = " "

\* C16: the markup scripture parser loses no key: the corpus it returns has
\* the key of every verse element whose book has a name and whose chapter
\* and verse numbers are numerals, also when a book name or a chapter
\* number of a book is on two elements.
C16_NoKeyLost ==
    pc = "xmlb_done" =>
        \A b \in 1..Len(doc) : \A c \in 1..Len(doc[b].chapters) :
            \A v \in 1..Len(doc[b].chapters[c].verses) :
                (/\ doc[b].name # None
                 /\ IntError(doc[b].chapters[c].number) = "none"
                 /\ IntError(doc[b].chapters[c].verses[v].number) = "none")
                => HasVerse(bible_data, Val(doc[b].name),
                            StrToInt(Val(doc[b].chapters[c].number)),
                            StrToInt(Val(doc[b].chapters[c].verses[v].number)))

\* ------------------------------------------------------------------------
\* _process_txt_commentary
\* ------------------------------------------------------------------------
\* \n\s*\n tried at index i: the index after the match, 0 when there is
\* none.  The greedy \s* gives back characters up to the last newline of
\* the whitespace run.  (The alphabet has no carriage return, so the second
\* alternative of the pattern matches nowhere.)
SeparatorEnd(t, i) ==
    IF /\ t[i] = "\n"
       /\ \E j \in (i + 1)..(RunEnd(t, i + 1, WhitespaceChars) - 1) : t[j] = "\n"
    THEN 1 + CHOOSE j \in (i + 1)..(RunEnd(t, i + 1, WhitespaceChars) - 1) :
                 /\ t[j] = "\n"
                 /\ \A k \in (j + 1)..(RunEnd(t, i + 1, WhitespaceChars) - 1) :
                       t[k] # "\n"
    ELSE 0

\* re.split(r'\n\s*\n|\r\n\s*\r\n', content): a is the start of the current
\* section, i the index at which a separator is tried next
RECURSIVE SplitFrom(_, _, _)
SplitFrom(t, a, i) ==
    IF i > Len(t) THEN <<Slice(t, a, Len(t))>>
    ELSE IF SeparatorEnd(t, i) # 0
         THEN <<Slice(t, a, i - 1)>> \o SplitFrom(t, SeparatorEnd(t, i), SeparatorEnd(t, i))
         ELSE SplitFrom(t, a, i + 1)
SplitSections(t) == SplitFrom(t, 1, 1)

\* re.search of [1-3]?\s*[A-Za-z]+\s+\d+:\d+(?:-\d+)? in the section: the
\* leftmost index at which the pattern matches
HasReference(sec) == \E i \in 1..Len(sec) : RefAt(sec, i).ok
ReferenceStart(sec) ==
    CHOOSE i \in 1..Len(sec) : RefAt(sec, i).ok /\ \A q \in 1..(i - 1) : ~RefAt(sec, q).ok

\* (?:-(\d+))? after the verse number: the index after it
RangeEnd(sec, r) ==
    IF /\ r.verseEnd <= Len(sec)
       /\ sec[r.verseEnd] = "-"
       /\ RunEnd(sec, r.verseEnd + 1, DigitChars) > r.verseEnd + 1
    THEN RunEnd(sec, r.verseEnd + 1, DigitChars)
    ELSE r.verseEnd

\* str.replace(old, '', 1): the first occurrence of old is removed
ReplaceFirst(str, old) ==
    IF ~IsSubstring(old, str) THEN str
    ELSE Slice(str, 1, (CHOOSE i \in 1..Len(str) :
                           /\ i + Len(old) - 1 <= Len(str)
                           /\ SubSeq(str, i, i + Len(old) - 1) = old
                           /\ \A q \in 1..(i - 1) :
                                 SubSeq(str, q, q + Len(old) - 1) # old) - 1)
         \o Slice(str, (CHOOSE i \in 1..Len(str) :
                           /\ i + Len(old) - 1 <= Len(str)
                           /\ SubSeq(str, i, i + Len(old) - 1) = old
                           /\ \A q \in 1..(i - 1) :
                                 SubSeq(str, q, q + Len(old) - 1) # old) + Len(old),
                  Len(str))

\* The entry of a section in which the reference matches at index i with
\* the runs r.  re.match of the reference pattern on the reference always
\* matches, with the groups of the search; group(1) is stored as it is.
ReferenceEntry(sec, i, r, source) ==
    [source |-> source,
     content |-> clean_commentary_text(
                     Strip(ReplaceFirst(sec, Slice(sec, i, RangeEnd(sec, r) - 1)))),
     book |-> Some(Slice(sec, i, r.bookEnd - 1)),
     chapter |-> Some(StrToInt(Slice(sec, r.chapStart, r.chapEnd - 1))),
     verse_start |-> Some(StrToInt(Slice(sec, r.chapEnd + 1, r.verseEnd - 1))),
     verse_end |-> IF RangeEnd(sec, r) > r.verseEnd
                   THEN Some(StrToInt(Slice(sec, r.verseEnd + 1, RangeEnd(sec, r) - 1)))
                   ELSE Some(StrToInt(Slice(sec, r.chapEnd + 1, r.verseEnd - 1)))]

\* The entry of a section
SectionEntry(sec, source) ==
    IF HasReference(sec)
    THEN ReferenceEntry(sec, ReferenceStart(sec), RefAt(sec, ReferenceStart(sec)), source)
    ELSE [source |-> source, content |-> clean_commentary_text(sec)]

\* for section in sections: sections that are blank are passed over
RECURSIVE SectionEntries(_, _, _)
SectionEntries(sections, i, source) ==
    IF i > Len(sections) THEN <<>>
    ELSE IF Strip(sections[i]) = <<>> THEN SectionEntries(sections, i + 1, source)
    ELSE <<SectionEntry(sections[i], source)>> \o SectionEntries(sections, i + 1, source)

process_txt_commentary(file, source) == SectionEntries(SplitSections(file), 1, source)

\* A commentary file and a scripture file with the same references: up to
\* MaxPieces pieces, one after the other.
CommentaryPieces ==
    { <<"J", " ", "3", ":", "1", " ">>,
      <<"1", " ", "J", " ", "1", ":", "2">>,
      <<"a", " ">>,
      <<"-", "2", " ", "b">>,
      <<"\n", "\n">>,
      <<"\n", " ", "\n">>,
      <<"\n">> }

InitTxtCommentary ==
    /\ pc = "txt_scan"
    /\ err = "none"
    /\ IdleClean
    /\ IdleAlign
    /\ IdleParse
    /\ content \in Concats(CommentaryPieces, MaxPieces)
    /\ pos = 1
    /\ matches = <<>>
    /\ bible_data = <<>>

\* _process_txt_commentary on the text the scripture parser has read
TxtCommentaryParse ==
    /\ pc = "txt_done"
    /\ pc' = "txtc_done"
    /\ entries' = process_txt_commentary(content, SourceChars)
    /\ UNCHANGED <<err, cleanVars, txtVars, alignVars, doc>>

NextTxtCommentary == TxtBibleMatch \/ TxtBibleReturn \/ TxtCommentaryParse

SpecTxtCommentary == InitTxtCommentary /\ [][NextTxtCommentary]_vars

\* The entries that carry the fields of a reference
ReferenceEntries == {i \in 1..Len(entries) : "book" \in DOMAIN entries[i]}

\* C17: the book field of the record of a section with a reference has no
\* leading or trailing whitespace, wherever the reference stands in the
\* section, and it is the book key under which the scripture parser stores
\* the verse of that reference.
C17_BookJoins ==
    pc = "txtc_done" =>
        \A i \in ReferenceEntries :
            /\ Val(entries[i].book) = Strip(Val(entries[i].book))
            /\ HasVerse(bible_data, Strip(Val(entries[i].book)),
                        Val(entries[i].chapter), Val(entries[i].verse_start))
                  => HasVerse(bible_data, Val(entries[i].book),
                              Val(entries[i].chapter), Val(entries[i].verse_start))

====
